---- MODULE Spec2Model ----
(***************************************************************************)
(* A model of the dashboard frontend: the App shell (refresh trigger,      *)
(* countdown, connection indicator) and its five data widgets              *)
(* (TopBannerScroll, GainersTable1Min, GainersTable, LosersTable,          *)
(* BottomBannerScroll), each with its fetch / normalise / fallback effect. *)
(*                                                                         *)
(* Numbers: a percentage change is an integer number of hundredths         *)
(* (5.23 is 523); a price is a decimal D(m, e) = m * 10^e; a volume is an  *)
(* integer.  A one-second firing of the countdown interval is the unit of  *)
(* time.                                                                   *)
(***************************************************************************)
EXTENDS Integers, Sequences, FiniteSets, TLC

VARIABLES
    lifecycle,      \* "init" before the first commit, "mounted", "unmounted"
    isConnected,    \* App: useState(true)
    lastUpdate,     \* App: useState(new Date()), the refresh trigger
    countdown,      \* App: useState(POLL_INTERVAL / 1000)
    connInflight,   \* App: number of checkConnection() calls awaiting fetch
    timer,          \* the setInterval handles: "App" and one per table
    countdownOn,    \* App: the one-second interval (countdownId) is active
    data,           \* per widget: useState([])
    loading,        \* per table: useState(true)
    error,          \* per table: useState(null)
    isExpanded,     \* GainersTable1Min: useState(false)
    captured,       \* per widget: the `data` its current effect closure sees
    inflight,       \* per widget: the fetchData() calls awaiting an answer
    delivered,      \* number of fetchData() answers handled so far
    sent,           \* per component: the GET requests the last step sent
    call,           \* a call of a pure helper: [fn, arg], or Null
    returned,       \* what that call returned, Null before it ran
    secondsLeft,    \* CountdownTimer: React.useState(29)
    timerMounted    \* CountdownTimer: "init", "mounted", "unmounted"

vars == << lifecycle, isConnected, lastUpdate, countdown, connInflight, timer,
           countdownOn, data, loading, error, isExpanded, captured, inflight,
           delivered, sent, call, returned, secondsLeft, timerMounted >>

appVars    == << isConnected, lastUpdate, countdown, connInflight >>
widgetVars == << data, loading, error, isExpanded >>
pureVars   == << call, returned >>
standaloneVars == << secondsLeft, timerMounted >>
programVars == << lifecycle, isConnected, lastUpdate, countdown, connInflight,
                  timer, countdownOn, data, loading, error, isExpanded, captured,
                  inflight, delivered, sent >>

----------------------------------------------------------------------------
(* Bounds of the model *)

\* unanswered fetchData() calls tracked per widget: when one more is sent,
\* the oldest is taken never to be answered
MaxInflight == 2
\* answers of the data endpoints handled in one run
MaxDelivered == 2
\* unanswered liveness requests tracked: beyond it, one never answers
MaxConn == 1
\* distinct values of the refresh trigger told apart (timestamps wrap)
NumStamps == 2
\* changes given to the badge functions: -MaxChange..MaxChange hundredths
MaxChange == 700
\* items a long answer has beyond the widget's row limit
ExtraItems == 1
\* arguments of the formatters: m * 10^e with -MaxDecimals <= e <= MaxExp
MaxDecimals == 9
MaxExp == 21
\* calls of a formatter with one argument
MaxCalls == 2

----------------------------------------------------------------------------
(* Program constants *)

POLL_INTERVAL == 30000
\* CountdownTimer: the value it starts from and wraps to
TimerStart == 29
PollSeconds == POLL_INTERVAL \div 1000
WidgetPoll == 30000
WidgetPollSeconds == WidgetPoll \div 1000
TableLimit == 7
BannerLimit == 20
CollapsedRows == 3

Null == "null"

\* no pure helper is being called
NoCall == [fn |-> "none"]

D(m, e) == [m |-> m, e |-> e]

----------------------------------------------------------------------------
(* The widgets App renders *)

Banners == {"TopBannerScroll", "BottomBannerScroll"}
Tables  == {"GainersTable1Min", "GainersTable", "LosersTable"}
Widgets == Banners \cup Tables

\* (mutant) LosersTable is rendered without the refreshTrigger prop
TriggeredWithoutLosers == {"TopBannerScroll", "GainersTable", "BottomBannerScroll"}

\* the children App passes refreshTrigger={lastUpdate} to
Triggered == {"TopBannerScroll", "GainersTable", "LosersTable", "BottomBannerScroll"}

API_ENDPOINTS ==
    [w \in Widgets |->
        CASE w = "TopBannerScroll"    -> "topBanner"
          [] w = "GainersTable1Min"   -> "gainersTable1Min"
          [] w = "GainersTable"       -> "gainersTable"
          [] w = "LosersTable"        -> "losersTable"
          [] w = "BottomBannerScroll" -> "bottomBanner"]

\* the field of a raw item a widget reads the change from
ChangeField(w) ==
    CASE w = "GainersTable1Min" -> "price_change_percentage_1min"
      [] w \in {"GainersTable", "LosersTable"} -> "price_change_percentage_3min"
      [] OTHER -> "price_change_1h"

----------------------------------------------------------------------------
(* Badges *)

Abs(x) == IF x < 0 THEN -x ELSE x

\* the thresholds 5 and 2 percent, in hundredths of a percent
getBadgeText(change) ==
    LET absChange == Abs(change) IN
    IF absChange >= 500 THEN "STRONG HIGH"
    ELSE IF absChange >= 200 THEN "STRONG"
    ELSE "MODERATE"

\* LosersTable's own copy
getBadgeTextLosers(change) ==
    LET absChange == Abs(change) IN
    IF absChange >= 500 THEN "STRONG HIGH"
    ELSE IF absChange >= 200 THEN "STRONG"
    ELSE "MODERATE"

\* GainersTable1Min's own copy
getBadgeText1Min(change) ==
    LET absChange == Abs(change) IN
    IF absChange >= 500 THEN "STRONG HIGH"
    ELSE IF absChange >= 200 THEN "STRONG"
    ELSE "MODERATE"

\* (mutant) the thresholds are exclusive
getBadgeStyleExclusive(change) ==
    LET absChange == Abs(change) IN
    IF absChange > 500 THEN "STRONG HIGH"
    ELSE IF absChange > 200 THEN "STRONG"
    ELSE "MODERATE"

\* TopBannerScroll's getBadgeStyle
getBadgeStyle(change) ==
    LET absChange == Abs(change) IN
    IF absChange >= 500 THEN "STRONG HIGH"
    ELSE IF absChange >= 200 THEN "STRONG"
    ELSE "MODERATE"

\* BottomBannerScroll's getBadgeStyle
getBadgeStyleVolume(volume) ==
    IF volume >= 10000000 THEN "HIGH VOL"
    ELSE IF volume >= 1000000 THEN "MODERATE"
    ELSE IF volume >= 100000 THEN "STRONG"
    ELSE "LOW VOL"

\* the widgets that classify a row by its change
ChangeBadged == {"GainersTable", "LosersTable", "GainersTable1Min", "TopBannerScroll"}

\* the badge function a widget calls, applied to x
BadgeOf(w, x) ==
    CASE w = "GainersTable"       -> getBadgeText(x)
      [] w = "LosersTable"        -> getBadgeTextLosers(x)
      [] w = "GainersTable1Min"   -> getBadgeText1Min(x)
      [] w = "TopBannerScroll"    -> getBadgeStyle(x)
      [] w = "BottomBannerScroll" -> getBadgeStyleVolume(x)

----------------------------------------------------------------------------
(* Strings *)

\* index of the first occurrence of pat in s, 0 when there is none
RECURSIVE IndexFrom(_, _, _)
IndexFrom(s, pat, i) ==
    IF i + Len(pat) - 1 > Len(s) THEN 0
    ELSE IF SubSeq(s, i, i + Len(pat) - 1) = pat THEN i
    ELSE IndexFrom(s, pat, i + 1)

\* String.prototype.replace(pat, ''): the first occurrence is removed
ReplaceFirst(s, pat) ==
    LET i == IndexFrom(s, pat, 1) IN
    IF i = 0 THEN s
    ELSE SubSeq(s, 1, i - 1) \o SubSeq(s, i + Len(pat), Len(s))

DecimalDigits == "0123456789"

\* the decimal digits of a natural number
RECURSIVE NatToString(_)
NatToString(n) ==
    IF n < 10 THEN SubSeq(DecimalDigits, n + 1, n + 1)
    ELSE NatToString(n \div 10) \o SubSeq(DecimalDigits, (n % 10) + 1, (n % 10) + 1)

UpperCase == "ABCDEFGHIJKLMNOPQRSTUVWXYZ"
LowerCase == "abcdefghijklmnopqrstuvwxyz"

\* String.prototype.toLowerCase() on the ASCII letters
RECURSIVE toLowerCase(_)
toLowerCase(s) ==
    IF Len(s) = 0 THEN ""
    ELSE LET c == SubSeq(s, 1, 1)
             i == IndexFrom(UpperCase, c, 1)
         IN (IF i = 0 THEN c ELSE SubSeq(LowerCase, i, i))
            \o toLowerCase(SubSeq(s, 2, Len(s)))

----------------------------------------------------------------------------
(* Responses of fetchData and their normalisation *)

Has(item, f) == f \in DOMAIN item

\* item.symbol?.replace('-USD', '') || 'N/A'
NormSymbol(item) ==
    IF ~Has(item, "symbol") THEN "N/A"
    ELSE LET s == ReplaceFirst(item.symbol, "-USD") IN
         IF s = "" THEN "N/A" ELSE s

\* item.rank || (index + 1)
NormRank(item, index) ==
    IF Has(item, "rank") /\ item.rank # 0 THEN item.rank ELSE index + 1

\* item.current_price || 0
NormPrice(item) == IF Has(item, "current_price") THEN item.current_price ELSE D(0, 0)

\* item[field] || 0
NormNumber(item, f) == IF Has(item, f) THEN item[f] ELSE 0

\* the row a widget makes of the raw item at (0-based) index
MapItem(w, item, index) ==
    IF w \in Tables THEN
        [rank   |-> NormRank(item, index),
         symbol |-> NormSymbol(item),
         price  |-> NormPrice(item),
         change |-> NormNumber(item, ChangeField(w)),
         badge  |-> BadgeOf(w, Abs(NormNumber(item, ChangeField(w))))]
    ELSE IF w = "TopBannerScroll" THEN
        [rank   |-> index + 1,
         symbol |-> NormSymbol(item),
         price  |-> NormPrice(item),
         change |-> NormNumber(item, "price_change_1h"),
         badge  |-> getBadgeStyle(Abs(NormNumber(item, "price_change_1h")))]
    ELSE
        [rank          |-> index + 1,
         symbol        |-> NormSymbol(item),
         price         |-> NormPrice(item),
         volume_change |-> NormNumber(item, "price_change_1h"),
         volume_24h    |-> NormNumber(item, "volume_24h"),
         badge         |-> getBadgeStyleVolume(NormNumber(item, "volume_24h"))]

Limit(w) == IF w \in Tables THEN TableLimit ELSE BannerLimit

Min(a, b) == IF a < b THEN a ELSE b

\* (mutant) the mapped rows are not sliced
NormalizeAll(w, items) ==
    [i \in 1..Len(items) |-> MapItem(w, items[i], i - 1)]

\* response.data.map(...).slice(0, limit)
Normalize(w, items) ==
    LET mapped == [i \in 1..Len(items) |-> MapItem(w, items[i], i - 1)] IN
    SubSeq(mapped, 1, Min(Len(mapped), Limit(w)))

\* response && response.data && Array.isArray(response.data) && response.data.length > 0
IsValid(response) ==
    /\ response.type = "object"
    /\ Has(response, "data")
    /\ response.data.type = "array"
    /\ Len(response.data.items) > 0

----------------------------------------------------------------------------
(* Hardcoded demo rows *)

GainersCatchRow(rank, symbol, cp, pc) ==
    [rank |-> rank, symbol |-> symbol, current_price |-> cp,
     price_change_percentage_3m |-> pc,
     price |-> cp, change |-> pc, badge |-> getBadgeText(Abs(pc))]

LosersCatchRow(rank, symbol, cp, pc) ==
    [rank |-> rank, symbol |-> symbol, current_price |-> cp,
     price_change_percentage_3m |-> pc,
     price |-> cp, change |-> pc, badge |-> getBadgeTextLosers(Abs(pc))]

Gainers1MinCatchRow(rank, symbol, cp, pc) ==
    [rank |-> rank, symbol |-> symbol, current_price |-> cp,
     price_change_percentage_1min |-> pc,
     price |-> cp, change |-> pc, badge |-> getBadgeText1Min(Abs(pc))]

Row(rank, symbol, price, change, badge) ==
    [rank |-> rank, symbol |-> symbol, price |-> price, change |-> change,
     badge |-> badge]

VolRow(rank, symbol, price, vc, vol, badge) ==
    [rank |-> rank, symbol |-> symbol, price |-> price, volume_change |-> vc,
     volume_24h |-> vol, badge |-> badge]

GainersCatchFallback ==
    << GainersCatchRow(1, "BTC-USD",  D(65000, 0), 523),
       GainersCatchRow(2, "ETH-USD",  D(3500, 0),  315),
       GainersCatchRow(3, "ADA-USD",  D(45, -2),   189),
       GainersCatchRow(4, "SOL-USD",  D(150, 0),   250),
       GainersCatchRow(5, "XRP-USD",  D(52, -2),    98),
       GainersCatchRow(6, "DOGE-USD", D(15, -2),   120),
       GainersCatchRow(7, "LTC-USD",  D(70, 0),     75) >>

LosersElseFallback ==
    << Row(1, "PEPE",  D(996, -8),  -245, "MODERATE"),
       Row(2, "SHIB",  D(2156, -8), -182, "MODERATE"),
       Row(3, "FLOKI", D(234, -6),   -95, "MODERATE"),
       Row(4, "BONK",  D(1717, -8),  -67, "MODERATE"),
       Row(5, "WIF",   D(2543, -3),  -23, "MODERATE"),
       Row(6, "NEW1",  D(1234, -3),  -45, "MODERATE"),
       Row(7, "NEW2",  D(567, -3),   -32, "MODERATE") >>

LosersCatchFallback ==
    << LosersCatchRow(1, "SEI-USD",  D(2244, -4), -1289),
       LosersCatchRow(2, "AVAX-USD", D(2456, -2),  -845),
       LosersCatchRow(3, "DOT-USD",  D(478, -2),   -623),
       LosersCatchRow(4, "ATOM-USD", D(789, -2),   -934),
       LosersCatchRow(5, "NEAR-USD", D(345, -2),   -567),
       LosersCatchRow(6, "NEW1",     D(1234, -3),   -45),
       LosersCatchRow(7, "NEW2",     D(567, -3),    -32) >>

Gainers1MinElseFallback ==
    << Row(1, "BTC",  D(65000, 0), 523, "STRONG HIGH"),
       Row(2, "ETH",  D(3500, 0),  315, "STRONG"),
       Row(3, "ADA",  D(45, -2),   189, "MODERATE"),
       Row(4, "SOL",  D(150, 0),   250, "STRONG"),
       Row(5, "XRP",  D(52, -2),    98, "MODERATE"),
       Row(6, "DOGE", D(15, -2),   120, "MODERATE"),
       Row(7, "LTC",  D(70, 0),     75, "MODERATE") >>

Gainers1MinCatchFallback ==
    << Gainers1MinCatchRow(1, "BTC-USD",  D(65000, 0), 523),
       Gainers1MinCatchRow(2, "ETH-USD",  D(3500, 0),  315),
       Gainers1MinCatchRow(3, "ADA-USD",  D(45, -2),   189),
       Gainers1MinCatchRow(4, "SOL-USD",  D(150, 0),   250),
       Gainers1MinCatchRow(5, "XRP-USD",  D(52, -2),    98),
       Gainers1MinCatchRow(6, "DOGE-USD", D(15, -2),   120),
       Gainers1MinCatchRow(7, "LTC-USD",  D(70, 0),     75) >>

TopBannerFallback ==
    << Row(1, "SUKU",  D(295, -4),  351, "STRONG"),
       Row(2, "HNT",   D(230, -2),   97, "MODERATE"),
       Row(3, "OCEAN", D(3162, -4),  60, "MODERATE"),
       Row(4, "PENGU", D(1605, -5),  56, "MODERATE"),
       Row(5, "MUSE",  D(7586, -3),  53, "MODERATE") >>

BottomBannerFallback ==
    << VolRow(1, "SUKU",  D(295, -4),  351, 25000000, "MODERATE"),
       VolRow(2, "HNT",   D(230, -2),   97, 18000000, "MODERATE"),
       VolRow(3, "OCEAN", D(3162, -4),  60, 15000000, "MODERATE"),
       VolRow(4, "PENGU", D(1605, -5),  56, 12000000, "MODERATE"),
       VolRow(5, "MUSE",  D(7586, -3),  53, 10000000, "MODERATE") >>

\* the rows the catch branch of a widget's fetch sets
CatchFallback(w) ==
    CASE w = "GainersTable"       -> GainersCatchFallback
      [] w = "LosersTable"        -> LosersCatchFallback
      [] w = "GainersTable1Min"   -> Gainers1MinCatchFallback
      [] w = "TopBannerScroll"    -> TopBannerFallback
      [] w = "BottomBannerScroll" -> BottomBannerFallback

\* the rows the else branch (no usable data array) of a widget's fetch sets;
\* GainersTable has no such rows: its else branch is setData([])
ElseFallback(w) ==
    CASE w = "GainersTable"       -> << >>
      [] w = "LosersTable"        -> LosersElseFallback
      [] w = "GainersTable1Min"   -> Gainers1MinElseFallback
      [] w = "TopBannerScroll"    -> TopBannerFallback
      [] w = "BottomBannerScroll" -> BottomBannerFallback

----------------------------------------------------------------------------
(* What the backend may answer (the inputs of the model) *)

Rejected == [type |-> "reject", message |-> "Failed to fetch"]
JsonNull == [type |-> "null"]
NoDataField == [type |-> "object"]
NotAnArray == [type |-> "object", data |-> [type |-> "string"]]
EmptyArray == [type |-> "object", data |-> [type |-> "array", items |-> << >>]]

Json(items) == [type |-> "object", data |-> [type |-> "array", items |-> items]]

RawItem(w, symbol, price, change) ==
    [symbol |-> symbol, current_price |-> price] @@ (ChangeField(w) :> change)

\* a well-formed answer: two items, ranks left to the widget
LiveItems(w) ==
    IF w = "BottomBannerScroll" THEN
        << RawItem(w, "BTC-USD", D(65000, 0), 523) @@ [volume_24h |-> 12000000],
           RawItem(w, "ETH-USD", D(3500, 0), -210) @@ [volume_24h |-> 150000] >>
    ELSE
        << RawItem(w, "BTC-USD", D(65000, 0), 523),
           RawItem(w, "ETH-USD", D(3500, 0), -210) >>

LiveResponse(w) == Json(LiveItems(w))

\* well-formed answers with more items than the widget keeps
LongItemsOf ==
    [w \in Widgets |->
        [i \in 1..(Limit(w) + ExtraItems) |->
            IF w = "BottomBannerScroll" THEN
                RawItem(w, "T" \o NatToString(i) \o "-USD", D(i, 0), 100 * i - 400)
                    @@ [volume_24h |-> 500000 * i]
            ELSE
                RawItem(w, "T" \o NatToString(i) \o "-USD", D(i, 0), 100 * i - 400)]]

LongItems(w) == LongItemsOf[w]

LongResponse(w) == Json(LongItems(w))

\* GainersTable1Min: well-formed answers of exactly as many items as the
\* collapsed table shows, and of one more
ToggleResponses(w) ==
    IF w = "GainersTable1Min"
    THEN {Json(SubSeq(LongItems(w), 1, k)) : k \in {CollapsedRows, CollapsedRows + 1}}
    ELSE {}

LiveResponses(w) == {LiveResponse(w), LongResponse(w)} \cup ToggleResponses(w)

EmptyResponses == {JsonNull, NoDataField, NotAnArray, EmptyArray}

Responses(w) == {Rejected} \cup EmptyResponses \cup LiveResponses(w)

----------------------------------------------------------------------------
(* The fetch handler of a widget, applied to one answer.  isMounted is the *)
(* flag of the effect run that issued the request; closureData is the      *)
(* `data` that effect run captured.                                        *)

\* (mutant) the catch branch of a table records the error but sets no rows
HandledDataCatchSetsNoRows(w, isMounted, closureData, response, cur) ==
    IF response.type = "reject" THEN
        IF w \in Banners /\ isMounted /\ Len(closureData) = 0
        THEN CatchFallback(w) ELSE cur
    ELSE IF IsValid(response) THEN
        IF isMounted THEN Normalize(w, response.data.items) ELSE cur
    ELSE IF w = "GainersTable" THEN
        IF isMounted THEN << >> ELSE cur
    ELSE
        IF isMounted /\ Len(closureData) = 0 THEN ElseFallback(w) ELSE cur

\* the value data has after the answer is handled (cur: its value before)
HandledData(w, isMounted, closureData, response, cur) ==
    IF response.type = "reject" THEN
        \* catch (err)
        IF w \in Tables
        THEN IF isMounted THEN CatchFallback(w) ELSE cur
        ELSE IF isMounted /\ Len(closureData) = 0 THEN CatchFallback(w) ELSE cur
    ELSE IF IsValid(response) THEN
        IF isMounted THEN Normalize(w, response.data.items) ELSE cur
    ELSE IF w = "GainersTable" THEN
        IF isMounted THEN << >> ELSE cur
    ELSE
        IF isMounted /\ Len(closureData) = 0 THEN ElseFallback(w) ELSE cur

\* tables: the value loading has after the answer is handled
HandledLoading(isMounted, response, cur) ==
    IF isMounted THEN FALSE ELSE cur

\* tables: the value error has after the answer is handled
\* (mutant) a successful fetch clears the error
HandledErrorCleared(isMounted, response, cur) ==
    IF ~isMounted THEN cur
    ELSE IF response.type = "reject" THEN response.message
    ELSE Null

HandledError(isMounted, response, cur) ==
    IF response.type = "reject" /\ isMounted THEN response.message ELSE cur

----------------------------------------------------------------------------
(* What a widget renders *)

\* the view a table returns: its three early returns, then the rows
TableView(w) ==
    IF loading[w] /\ Len(data[w]) = 0 THEN "loading"
    ELSE IF error[w] # Null /\ Len(data[w]) = 0 THEN "offline"
    ELSE IF Len(data[w]) = 0 THEN "empty"
    ELSE "rows"

\* (mutant) GainersTable1Min maps over all its rows
RenderedExpanded(w) ==
    IF w \in Banners THEN data[w] \o data[w]
    ELSE IF TableView(w) # "rows" THEN << >>
    ELSE data[w]

\* the rows a widget puts on the screen
Rendered(w) ==
    IF w \in Banners THEN data[w] \o data[w]
    ELSE IF TableView(w) # "rows" THEN << >>
    ELSE IF w = "GainersTable1Min"
         THEN SubSeq(data[w], 1,
                     Min(Len(data[w]), IF isExpanded THEN Len(data[w]) ELSE CollapsedRows))
    ELSE data[w]

\* a table: the href of the link rendered for a row
coinbaseUrl(item) ==
    "https://www.coinbase.com/advanced-trade/spot/" \o toLowerCase(item.symbol) \o "-USD"

----------------------------------------------------------------------------
(* Timers and requests *)

\* no interval is active; n counts the intervals the component has set and
\* not cleared
Off == [on |-> FALSE, age |-> 0, aligned |-> FALSE, n |-> 0]

\* the period of an interval, in seconds
Period(id) == IF id = "App" THEN PollSeconds ELSE WidgetPollSeconds

\* an interval is due after as many one-second ticks as its period has
\* seconds; one created together with the one-second interval is due at the
\* same instant as the last of these ticks and may run before it
Due(id) ==
    /\ timer[id].on
    /\ \/ timer[id].age >= Period(id)
       \/ timer[id].aligned /\ timer[id].age = Period(id) - 1

\* the handle after its callback ran: the next period has begun
Fired(id) == [timer[id] EXCEPT !.age = @ - Period(id)]

\* setInterval(...) called while App's refresh interval has age appAge:
\* the new interval is aligned when created at mount or in a refresh tick
NewTimer(aligned, appAge) ==
    [on |-> TRUE, age |-> IF appAge < 0 THEN -1 ELSE 0, aligned |-> aligned,
     n |-> 1]

\* (mutant) the cleanup does not clear the interval
ClearIntervalLeaks(h) == h

\* clearInterval(interval) in the cleanup of the effect run that set it
ClearInterval(h) == IF h.on THEN [Off EXCEPT !.n = h.n - 1] ELSE h

\* const interval = setInterval(...) in an effect run of a component whose
\* handle is h
SetInterval(h, aligned, appAge) ==
    [NewTimer(aligned, appAge) EXCEPT !.n = h.n + 1]

\* the call of the fetch function in the effect body
NewRequest(w) ==
    [endpoint |-> API_ENDPOINTS[w], isMounted |-> TRUE, byInterval |-> FALSE]

\* the call of the fetch function by the table's own interval
IntervalRequest(w) == [NewRequest(w) EXCEPT !.byInterval = TRUE]

\* (mutant) the cleanup leaves isMounted as it is
CleanupKeepsFlag(q) == q

\* cleanup of an effect run: isMounted = false for the requests it issued
Cleanup(q) == [i \in 1..Len(q) |-> [q[i] EXCEPT !.isMounted = FALSE]]

RemoveAt(q, i) == SubSeq(q, 1, i - 1) \o SubSeq(q, i + 1, Len(q))

\* fetchData(API_ENDPOINTS[w]) is called
Issue(q, w) ==
    Append(IF Len(q) >= MaxInflight THEN Tail(q) ELSE q, NewRequest(w))

\* the same call made by the interval callback
IssueByInterval(q, w) ==
    Append(IF Len(q) >= MaxInflight THEN Tail(q) ELSE q, IntervalRequest(w))

Components == Widgets \cup {"App"}

NoneSent == [c \in Components |-> 0]

\* the requests sent by a step in which the effects of the widgets ws run
\* and App calls checkConnection() (byApp) or not
SentBy(ws, byApp) ==
    [c \in Components |-> IF c \in ws \/ (c = "App" /\ byApp) THEN 1 ELSE 0]

\* the effect of each widget in ws re-runs after a render with a new
\* refreshTrigger: the cleanup of the previous run, then the body (fetch at
\* once and, in a table, a new interval)
EffectRerun(ws, aligned, appAge) ==
    /\ inflight' = [w \in Widgets |->
                      IF w \in ws THEN Issue(Cleanup(inflight[w]), w)
                      ELSE inflight[w]]
    /\ captured' = [w \in Widgets |-> IF w \in ws THEN data[w] ELSE captured[w]]
    /\ timer' = [t \in DOMAIN timer |->
                   IF t \in ws \cap Tables
                   THEN SetInterval(ClearInterval(timer[t]), aligned, appAge)
                   ELSE IF t = "App" THEN [timer[t] EXCEPT !.age = appAge]
                   ELSE timer[t]]

----------------------------------------------------------------------------
(* Initial state and actions *)

\* the component tree as constructed, before its first commit
InitApp ==
    /\ lifecycle = "init"
    /\ isConnected = TRUE
    /\ lastUpdate = 0
    /\ countdown = PollSeconds
    /\ connInflight = 0
    /\ timer = [t \in {"App"} \cup Tables |-> Off]
    /\ countdownOn = FALSE
    /\ data = [w \in Widgets |-> << >>]
    /\ loading = [w \in Tables |-> TRUE]
    /\ error = [w \in Tables |-> Null]
    /\ isExpanded = FALSE
    /\ captured = [w \in Widgets |-> << >>]
    /\ inflight = [w \in Widgets |-> << >>]
    /\ delivered = 0
    /\ sent = NoneSent
    /\ secondsLeft = TimerStart
    /\ timerMounted = "init"

Init ==
    /\ InitApp
    /\ call = NoCall
    /\ returned = Null

\* first commit: every child's effect runs, then App's
Mount ==
    /\ lifecycle = "init"
    /\ lifecycle' = "mounted"
    /\ inflight' = [w \in Widgets |-> Issue(inflight[w], w)]
    /\ captured' = [w \in Widgets |-> data[w]]
    /\ connInflight' = Min(connInflight + 1, MaxConn)
    /\ sent' = SentBy(Widgets, TRUE)
    /\ timer' = [t \in DOMAIN timer |-> SetInterval(timer[t], TRUE, 0)]
    /\ countdownOn' = TRUE
    /\ UNCHANGED << isConnected, lastUpdate, countdown, widgetVars, delivered >>
    /\ UNCHANGED << pureVars, standaloneVars >>

\* App: the callback of setInterval(..., POLL_INTERVAL)
RefreshTick ==
    /\ lifecycle = "mounted"
    /\ Due("App")
    /\ connInflight' = Min(connInflight + 1, MaxConn)
    /\ lastUpdate' = (lastUpdate + 1) % NumStamps
    /\ countdown' = PollSeconds
    /\ EffectRerun(Triggered, TRUE, Fired("App").age)
    /\ sent' = SentBy(Triggered, TRUE)
    /\ UNCHANGED << lifecycle, isConnected, countdownOn, widgetVars, delivered >>
    /\ UNCHANGED << pureVars, standaloneVars >>

\* (mutant) the countdown runs down to 0 before it wraps
CountdownTickToZero ==
    /\ lifecycle = "mounted"
    /\ countdownOn
    /\ \A t \in DOMAIN timer : timer[t].on => timer[t].age < Period(t)
    /\ countdown' = IF countdown > 0 THEN countdown - 1 ELSE PollSeconds
    /\ timer' = [t \in DOMAIN timer |->
                   IF timer[t].on THEN [timer[t] EXCEPT !.age = @ + 1] ELSE timer[t]]
    /\ sent' = NoneSent
    /\ UNCHANGED << lifecycle, isConnected, lastUpdate, connInflight, countdownOn,
                    widgetVars, captured, inflight, delivered >>
    /\ UNCHANGED << pureVars, standaloneVars >>

\* App: the callback of setInterval(..., 1000)
CountdownTick ==
    /\ lifecycle = "mounted"
    /\ countdownOn
    /\ \A t \in DOMAIN timer : timer[t].on => timer[t].age < Period(t)
    /\ countdown' = IF countdown > 1 THEN countdown - 1 ELSE PollSeconds
    /\ timer' = [t \in DOMAIN timer |->
                   IF timer[t].on THEN [timer[t] EXCEPT !.age = @ + 1] ELSE timer[t]]
    /\ sent' = NoneSent
    /\ UNCHANGED << lifecycle, isConnected, lastUpdate, connInflight, countdownOn,
                    widgetVars, captured, inflight, delivered >>
    /\ UNCHANGED << pureVars, standaloneVars >>

\* App: onClick of the refresh button
refreshGainersAndLosers ==
    /\ lifecycle = "mounted"
    /\ lastUpdate' = (lastUpdate + 1) % NumStamps
    /\ countdown' = PollSeconds
    /\ EffectRerun(Triggered, FALSE, timer["App"].age)
    /\ sent' = SentBy(Triggered, FALSE)
    /\ UNCHANGED << lifecycle, isConnected, connInflight, countdownOn, widgetVars,
                    delivered >>
    /\ UNCHANGED << pureVars, standaloneVars >>

\* (mutant) once offline, the indicator stays offline
ConnectionAnsweredLatched(ok) ==
    /\ connInflight > 0
    /\ connInflight' = connInflight - 1
    /\ isConnected' = (isConnected /\ ok)
    /\ sent' = NoneSent
    /\ UNCHANGED << lifecycle, lastUpdate, countdown, timer, countdownOn, widgetVars,
                    captured, inflight, delivered >>
    /\ UNCHANGED << pureVars, standaloneVars >>

\* App: checkConnection() resumes after its await: response.ok, or false
\* when fetch rejected
ConnectionAnswered(ok) ==
    /\ connInflight > 0
    /\ connInflight' = connInflight - 1
    /\ isConnected' = ok
    /\ sent' = NoneSent
    /\ UNCHANGED << lifecycle, lastUpdate, countdown, timer, countdownOn, widgetVars,
                    captured, inflight, delivered >>
    /\ UNCHANGED << pureVars, standaloneVars >>

\* a table: the callback of its own setInterval(fetch..., 30000)
Poll(w) ==
    /\ lifecycle = "mounted"
    /\ Due(w)
    /\ inflight' = [inflight EXCEPT ![w] = IssueByInterval(@, w)]
    /\ sent' = [NoneSent EXCEPT ![w] = 1]
    /\ timer' = [timer EXCEPT ![w] = Fired(w)]
    /\ UNCHANGED << lifecycle, appVars, countdownOn, widgetVars, captured, delivered >>
    /\ UNCHANGED << pureVars, standaloneVars >>

\* (mutant) a widget's answer also sets App's connection indicator
AnsweredSetsConnection(w, i, response) ==
    /\ delivered < MaxDelivered
    /\ i \in 1..Len(inflight[w])
    /\ inflight' = [inflight EXCEPT ![w] = RemoveAt(@, i)]
    /\ delivered' = delivered + 1
    /\ sent' = NoneSent
    /\ isConnected' = (response.type # "reject")
    /\ LET r == inflight[w][i] IN
        /\ IF w \in Tables
           THEN /\ loading' = [loading EXCEPT ![w] =
                                   HandledLoading(r.isMounted, response, @)]
                /\ error' = [error EXCEPT ![w] =
                                 HandledError(r.isMounted, response, @)]
           ELSE UNCHANGED << loading, error >>
        /\ data' = [data EXCEPT ![w] =
                        HandledData(w, r.isMounted, captured[w], response, @)]
    /\ UNCHANGED << lifecycle, lastUpdate, countdown, connInflight, timer,
                    countdownOn, isExpanded, captured >>
    /\ UNCHANGED << pureVars, standaloneVars >>

\* a widget: its fetch function resumes after `await fetchData(...)` of its
\* i-th unanswered call, which settled with response
HandleAnswer(w, i, response) ==
    /\ i \in 1..Len(inflight[w])
    /\ inflight' = [inflight EXCEPT ![w] = RemoveAt(@, i)]
    /\ sent' = NoneSent
    /\ LET r == inflight[w][i] IN
        /\ IF w \in Tables
           THEN /\ loading' = [loading EXCEPT ![w] =
                                   HandledLoading(r.isMounted, response, @)]
                /\ error' = [error EXCEPT ![w] =
                                 HandledError(r.isMounted, response, @)]
           ELSE UNCHANGED << loading, error >>
        /\ data' = [data EXCEPT ![w] =
                        HandledData(w, r.isMounted, captured[w], response, @)]
    /\ UNCHANGED << lifecycle, appVars, timer, countdownOn, isExpanded, captured >>
    /\ UNCHANGED << pureVars, standaloneVars >>

\* a widget: its i-th unanswered fetchData() call settles with response;
\* one of the at most MaxDelivered answers of a run
Answered(w, i, response) ==
    /\ delivered < MaxDelivered
    /\ delivered' = delivered + 1
    /\ HandleAnswer(w, i, response)

\* the same, in runs whose answers are not counted
Settled(w, i, response) ==
    /\ HandleAnswer(w, i, response)
    /\ UNCHANGED delivered

\* GainersTable1Min: onClick of the Show More / Show Less button
ToggleExpanded ==
    /\ lifecycle = "mounted"
    /\ TableView("GainersTable1Min") = "rows"
    /\ Len(data["GainersTable1Min"]) > CollapsedRows
    /\ isExpanded' = ~isExpanded
    /\ sent' = NoneSent
    /\ UNCHANGED << lifecycle, appVars, timer, countdownOn, data, loading, error,
                    captured, inflight, delivered >>
    /\ UNCHANGED << pureVars, standaloneVars >>

\* the tree is removed: every effect's cleanup runs
Unmount ==
    /\ lifecycle = "mounted"
    /\ lifecycle' = "unmounted"
    /\ inflight' = [w \in Widgets |-> Cleanup(inflight[w])]
    /\ timer' = [t \in DOMAIN timer |-> ClearInterval(timer[t])]
    /\ countdownOn' = FALSE
    /\ sent' = NoneSent
    /\ UNCHANGED << appVars, widgetVars, captured, delivered >>
    /\ UNCHANGED << pureVars, standaloneVars >>

\* CountdownTimer: first commit, its effect sets the one-second interval
CountdownTimerMount ==
    /\ timerMounted = "init"
    /\ timerMounted' = "mounted"
    /\ UNCHANGED << programVars, pureVars, secondsLeft >>

\* CountdownTimer: the callback of setInterval(..., 1000)
CountdownTimerTick ==
    /\ timerMounted = "mounted"
    /\ secondsLeft' = IF secondsLeft > 0 THEN secondsLeft - 1 ELSE TimerStart
    /\ UNCHANGED << programVars, pureVars, timerMounted >>

\* CountdownTimer: removed, the cleanup clears the interval
CountdownTimerUnmount ==
    /\ timerMounted = "mounted"
    /\ timerMounted' = "unmounted"
    /\ UNCHANGED << programVars, pureVars, secondsLeft >>

AnyConnectionAnswered == \E ok \in BOOLEAN : ConnectionAnswered(ok)

AnyPoll == \E w \in Tables : Poll(w)

AnyAnswered ==
    \E w \in Widgets : \E i \in 1..MaxInflight : \E response \in Responses(w) :
        Answered(w, i, response)

\* the whole program
Next ==
    \/ Mount
    \/ RefreshTick
    \/ CountdownTick
    \/ refreshGainersAndLosers
    \/ AnyConnectionAnswered
    \/ AnyPoll
    \/ AnyAnswered
    \/ ToggleExpanded
    \/ Unmount

Spec == Init /\ [][Next]_vars

\* the widgets' data lifecycle: the trigger changes by the refresh button,
\* the data endpoints answer; no time passes
NextWidgets ==
    \/ Mount
    \/ refreshGainersAndLosers
    \/ AnyAnswered
    \/ Unmount

SpecWidgets == Init /\ [][NextWidgets]_vars

\* the App shell and the timers: time passes, the liveness endpoint
\* answers, the data endpoints do not
NextShell ==
    \/ Mount
    \/ RefreshTick
    \/ CountdownTick
    \/ refreshGainersAndLosers
    \/ AnyConnectionAnswered
    \/ AnyPoll
    \/ Unmount

SpecShell == Init /\ [][NextShell]_vars

\* the first polling period of the tables: time passes up to the first
\* 30-second callbacks, the tables' own intervals fire (they are registered
\* before App's, child effects run first), the data endpoints answer
NextPolling ==
    \/ Mount
    \/ CountdownTick
    \/ AnyPoll
    \/ AnyAnswered
    \/ Unmount

SpecPolling == Init /\ [][NextPolling]_vars

\* the first polling period with the Show More / Show Less button in use
NextExpand ==
    \/ Mount
    \/ CountdownTick
    \/ AnyPoll
    \/ AnyAnswered
    \/ ToggleExpanded
    \/ Unmount

SpecExpand == Init /\ [][NextExpand]_vars

\* the manual refresh while no widget has MaxInflight unanswered requests:
\* no request is taken never to be answered
RefreshKeepingAll ==
    /\ \A w \in Triggered : Len(inflight[w]) < MaxInflight
    /\ refreshGainersAndLosers

\* the oldest unanswered request of some widget resolves with non-empty data
AnySettled == \E w \in Widgets : Settled(w, 1, LiveResponse(w))

\* the widgets with a backend that answers every request, with non-empty
\* data, while the refresh trigger changes at any time
NextLiveWidgets ==
    \/ Mount
    \/ RefreshKeepingAll
    \/ AnySettled
    \/ Unmount

\* every request eventually resolves: the oldest unanswered request of each
\* widget is answered
LiveWidgets ==
    /\ Init /\ [][NextLiveWidgets]_vars
    /\ WF_vars(Mount)
    /\ \A w \in Widgets : WF_vars(Settled(w, 1, LiveResponse(w)))

\* the two countdowns: App's, with its refresh interval and refresh button,
\* and the standalone CountdownTimer
NextCountdowns ==
    \/ Mount
    \/ RefreshTick
    \/ CountdownTick
    \/ refreshGainersAndLosers
    \/ Unmount
    \/ CountdownTimerMount
    \/ CountdownTimerTick
    \/ CountdownTimerUnmount

SpecCountdowns == Init /\ [][NextCountdowns]_vars

\* SpecShell with the scheduling the runtime gives: the first commit happens,
\* a due timer callback runs, a pending liveness request settles
LiveShell ==
    /\ SpecShell
    /\ WF_vars(Mount)
    /\ WF_vars(CountdownTick)
    /\ WF_vars(RefreshTick)
    /\ \A w \in Tables : WF_vars(Poll(w))
    /\ WF_vars(AnyConnectionAnswered)

----------------------------------------------------------------------------
(* JavaScript values given to the formatters, and Number.prototype methods. *)
(* A finite number is the decimal m * 10^e; the arguments drawn below are  *)
(* decimals whose nearest double prints with the same digits.              *)

Finite(m, e) == [kind |-> "finite", m |-> m, e |-> e]

\* NaN, Infinity, -Infinity, and values that are not numbers at all
Other(kind) == [kind |-> kind, m |-> 0, e |-> 0]

NonFiniteKinds == {"NaN", "Infinity", "-Infinity"}
NonNumberKinds == {"undefined", "null", "string"}

\* (mutant) Number.isFinite replaced by a test for NaN only
NumberIsNotNaN(x) == x.kind # "NaN"

\* Number.isFinite(x): false for every value that is not a number
NumberIsFinite(x) == x.kind = "finite"

\* what a method call on undefined or null ends in
Thrown == "TypeError"

RECURSIVE Pow10(_)
Pow10(k) == IF k = 0 THEN 1 ELSE 10 * Pow10(k - 1)

RECURSIVE Zeros(_)
Zeros(n) == IF n <= 0 THEN "" ELSE "0" \o Zeros(n - 1)

RECURSIVE StripZeros(_)
StripZeros(ds) ==
    IF Len(ds) > 1 /\ SubSeq(ds, Len(ds), Len(ds)) = "0"
    THEN StripZeros(SubSeq(ds, 1, Len(ds) - 1))
    ELSE ds

\* floor(log10 |x|) of a finite x # 0
Exponent10(x) == Len(NatToString(Abs(x.m))) + x.e - 1

\* (mutant) x > 10^k
GtPow10(x, k) ==
    /\ x.m > 0
    /\ Exponent10(x) >= k
    /\ ~(Exponent10(x) = k /\ StripZeros(NatToString(x.m)) = "1")

\* x >= 10^k, for a finite x
GePow10(x, k) == x.m > 0 /\ Exponent10(x) >= k

\* Math.abs
MathAbs(x) == [x EXCEPT !.m = Abs(@)]

\* a / p rounded to the nearest integer, halves upwards
RoundDiv(a, p) == (a \div p) + (IF 2 * (a % p) >= p THEN 1 ELSE 0)

\* Number::toString of a finite x with |x| >= 10^21
NumberToString(x) ==
    LET ds == StripZeros(NatToString(Abs(x.m)))
        sign == IF x.m < 0 THEN "-" ELSE ""
        ex == NatToString(Exponent10(x))
    IN IF Len(ds) = 1 THEN sign \o ds \o "e+" \o ex
       ELSE sign \o SubSeq(ds, 1, 1) \o "." \o SubSeq(ds, 2, Len(ds)) \o "e+" \o ex

\* x.toFixed(f), 1 <= f <= 100
toFixed(x, f) ==
    IF x.kind \in NonNumberKinds THEN Thrown
    ELSE IF x.kind \in NonFiniteKinds THEN x.kind
    ELSE IF x.m # 0 /\ Exponent10(x) >= 21 THEN NumberToString(x)
    ELSE LET a == Abs(x.m)
             shift == x.e + f
             digits == IF a = 0 THEN "0"
                       ELSE IF shift >= 0 THEN NatToString(a) \o Zeros(shift)
                       ELSE IF -shift >= 10 THEN "0"
                       ELSE NatToString(RoundDiv(a, Pow10(-shift)))
             padded == IF Len(digits) <= f THEN Zeros(f + 1 - Len(digits)) \o digits
                       ELSE digits
         IN (IF x.m < 0 THEN "-" ELSE "")
                \o SubSeq(padded, 1, Len(padded) - f) \o "."
                \o SubSeq(padded, Len(padded) - f + 1, Len(padded))

\* x.toExponential(f), 1 <= f <= 8
toExponential(x, f) ==
    IF x.kind \in NonNumberKinds THEN Thrown
    ELSE IF x.kind \in NonFiniteKinds THEN x.kind
    ELSE IF x.m = 0 THEN "0." \o Zeros(f) \o "e+0"
    ELSE LET a == Abs(x.m)
             len == Len(NatToString(a))
             n == IF len <= f + 1 THEN a * Pow10(f + 1 - len)
                  ELSE RoundDiv(a, Pow10(len - f - 1))
             carry == n = Pow10(f + 1)
             ms == NatToString(IF carry THEN Pow10(f) ELSE n)
             ex == len + x.e - 1 + (IF carry THEN 1 ELSE 0)
         IN (IF x.m < 0 THEN "-" ELSE "")
                \o SubSeq(ms, 1, 1) \o "." \o SubSeq(ms, 2, f + 1)
                \o "e" \o (IF ex >= 0 THEN "+" ELSE "-") \o NatToString(Abs(ex))

----------------------------------------------------------------------------
(* utils/formatters.js *)

\* (mutant) the band of 10 decimals is missing
formatPriceNineBands(price) ==
    IF ~NumberIsFinite(price) THEN "N/A"
    ELSE IF GePow10(price, 0) THEN "$" \o toFixed(price, 2)
    ELSE IF GePow10(price, -1) THEN "$" \o toFixed(price, 4)
    ELSE IF GePow10(price, -2) THEN "$" \o toFixed(price, 5)
    ELSE IF GePow10(price, -3) THEN "$" \o toFixed(price, 6)
    ELSE IF GePow10(price, -4) THEN "$" \o toFixed(price, 8)
    ELSE IF GePow10(price, -5) THEN "$" \o toFixed(price, 9)
    ELSE LET scientific == toExponential(price, 2) IN "$" \o scientific

formatPrice(price) ==
    IF ~NumberIsFinite(price) THEN "N/A"
    ELSE IF GePow10(price, 0) THEN "$" \o toFixed(price, 2)
    ELSE IF GePow10(price, -1) THEN "$" \o toFixed(price, 4)
    ELSE IF GePow10(price, -2) THEN "$" \o toFixed(price, 5)
    ELSE IF GePow10(price, -3) THEN "$" \o toFixed(price, 6)
    ELSE IF GePow10(price, -4) THEN "$" \o toFixed(price, 8)
    ELSE IF GePow10(price, -5) THEN "$" \o toFixed(price, 9)
    ELSE IF GePow10(price, -6) THEN "$" \o toFixed(price, 10)
    ELSE LET scientific == toExponential(price, 2) IN "$" \o scientific

\* (mutant) the absolute value is what gets printed
formatPercentageOfAbs(percentage) ==
    IF ~NumberIsFinite(percentage) THEN "N/A"
    ELSE LET absPercentage == MathAbs(percentage) IN
         IF GePow10(absPercentage, 1) THEN toFixed(absPercentage, 1) \o "%"
         ELSE IF GePow10(absPercentage, 0) THEN toFixed(absPercentage, 2) \o "%"
         ELSE IF GePow10(absPercentage, -1) THEN toFixed(absPercentage, 3) \o "%"
         ELSE IF GePow10(absPercentage, -2) THEN toFixed(absPercentage, 4) \o "%"
         ELSE IF absPercentage.m > 0 THEN toFixed(absPercentage, 5) \o "%"
         ELSE "0.00%"

formatPercentage(percentage) ==
    IF ~NumberIsFinite(percentage) THEN "N/A"
    ELSE LET absPercentage == MathAbs(percentage) IN
         IF GePow10(absPercentage, 1) THEN toFixed(percentage, 1) \o "%"
         ELSE IF GePow10(absPercentage, 0) THEN toFixed(percentage, 2) \o "%"
         ELSE IF GePow10(absPercentage, -1) THEN toFixed(percentage, 3) \o "%"
         ELSE IF GePow10(absPercentage, -2) THEN toFixed(percentage, 4) \o "%"
         ELSE IF absPercentage.m > 0 THEN toFixed(percentage, 5) \o "%"
         ELSE "0.00%"

----------------------------------------------------------------------------
(* The pure helpers, called on their own *)

\* a badge function of one of the four widgets, called with a change
BadgeCalls ==
    {[fn |-> "getBadgeText", widget |-> w, arg |-> x] :
        w \in ChangeBadged, x \in -MaxChange..MaxChange}

InitBadge ==
    /\ InitApp
    /\ call \in BadgeCalls
    /\ returned = Null

CallBadge ==
    /\ call.fn = "getBadgeText"
    /\ returned = Null
    /\ returned' = BadgeOf(call.widget, call.arg)
    /\ UNCHANGED << programVars, call, standaloneVars >>

SpecBadge == InitBadge /\ [][CallBadge]_vars

\* x * 10^f lies halfway between two integers: toFixed(f) then rounds by
\* the binary expansion of the double
TieAt(x, f) ==
    /\ x.kind = "finite" /\ x.m # 0
    /\ LET k == -(x.e + f) IN
        k >= 1 /\ k <= 9 /\ 2 * (Abs(x.m) % Pow10(k)) = Pow10(k)

\* likewise for toExponential(f)
TieExp(x, f) ==
    /\ x.kind = "finite" /\ x.m # 0
    /\ LET len == Len(NatToString(Abs(x.m))) IN
        len > f + 1 /\ 2 * (Abs(x.m) % Pow10(len - f - 1)) = Pow10(len - f - 1)

SmallMantissas == {0, 1, 5, 9, 32, 65, 99, 128, 523, 996, 999, 9999, 99999}
\* mantissas m for which the double nearest m * 10^e prints with the digits
\* of m * 10^e, for every e up to MaxExp
LargeMantissas == {1, 65, 999}

FiniteArgs ==
    {x \in {Finite(sg * m, e) : sg \in {1, -1}, m \in SmallMantissas, e \in -MaxDecimals..0}
            \cup {Finite(sg * m, e) : sg \in {1, -1}, m \in LargeMantissas, e \in 1..MaxExp} :
        (\A f \in 1..10 : ~TieAt(x, f)) /\ ~TieExp(x, 2)}

FormatArgs == FiniteArgs \cup {Other(k) : k \in NonFiniteKinds \cup NonNumberKinds}

FormatCalls ==
    {[fn |-> f, arg |-> x, n |-> 0] : f \in {"formatPrice", "formatPercentage"}, x \in FormatArgs}

InitFormat ==
    /\ InitApp
    /\ call \in FormatCalls
    /\ returned = Null

CallFormatPrice ==
    /\ call.fn = "formatPrice"
    /\ call.n < MaxCalls
    /\ returned' = formatPrice(call.arg)
    /\ call' = [call EXCEPT !.n = @ + 1]
    /\ UNCHANGED << programVars, standaloneVars >>

CallFormatPercentage ==
    /\ call.fn = "formatPercentage"
    /\ call.n < MaxCalls
    /\ returned' = formatPercentage(call.arg)
    /\ call' = [call EXCEPT !.n = @ + 1]
    /\ UNCHANGED << programVars, standaloneVars >>

NextFormat == CallFormatPrice \/ CallFormatPercentage

SpecFormat == InitFormat /\ [][NextFormat]_vars

----------------------------------------------------------------------------
(* Properties *)

\* the rows a widget makes of the well-formed answer
LiveRows(w) == Normalize(w, LiveItems(w))

\* per widget, the row lists its well-formed answers are normalised to
LiveRowsOf ==
    [w \in Widgets |-> {Normalize(w, r.data.items) : r \in LiveResponses(w)}]

\* the widget holds the rows of a successful fetch
HoldsLiveRows(w) == data[w] \in LiveRowsOf[w]

\* a step that took one request of the widget out of flight
AnswerStep(w) ==
    /\ delivered' = delivered + 1
    /\ Len(inflight'[w]) = Len(inflight[w]) - 1

\* the widget shows rows: a table is past its three early returns, a banner
\* maps over a non-empty list
ShowsRows(w) == IF w \in Tables THEN TableView(w) = "rows" ELSE Len(data[w]) > 0

IsLive(w, i) == i \in 1..Len(inflight[w]) /\ inflight[w][i].isMounted

LiveCount(q) == Cardinality({i \in 1..Len(q) : q[i].isMounted})

\* a step in which the one-second interval of App fired
TickStep ==
    /\ timer["App"].on /\ timer'["App"].on
    /\ timer'["App"].age = timer["App"].age + 1

\* a step in which the 30-second interval of App fired
RefreshStep ==
    /\ timer["App"].on /\ timer'["App"].on
    /\ timer'["App"].age = timer["App"].age - 30

\* C1: a widget that holds the rows of a successful fetch holds the same
\* rows after a later request of it failed.
C1_FailureKeepsRows ==
    [][\A w \in Widgets : \A i \in 1..MaxInflight :
          (HoldsLiveRows(w) /\ AnswerStep(w) /\ Answered(w, i, Rejected)) => data'[w] = data[w]]_vars

\* C2: when a request of a mounted widget whose trigger is unchanged fails
\* and the widget does not hold rows of a successful fetch (so in particular
\* when no fetch succeeded yet), the widget then holds its hardcoded
\* fallback rows, a non-empty list, and shows rows.
C2_FirstFailureShowsFallback ==
    [][\A w \in Widgets : \A i \in 1..MaxInflight :
          (IsLive(w, i) /\ ~HoldsLiveRows(w) /\ AnswerStep(w) /\ Answered(w, i, Rejected))
          => /\ data'[w] = CatchFallback(w)
             /\ Len(data'[w]) > 0
             /\ ShowsRows(w)']_vars

\* a table and a banner show their fallback rows after a failed first fetch
C2_Witness ==
    /\ lifecycle = "mounted"
    /\ error["GainersTable1Min"] = Rejected.message
    /\ data["GainersTable1Min"] = Gainers1MinCatchFallback
    /\ TableView("GainersTable1Min") = "rows"
    /\ data["TopBannerScroll"] = TopBannerFallback
    /\ delivered = 2

\* C3: when a widget that holds no rows gets an answer without a non-empty
\* data array, it then holds its hardcoded fallback rows, never no rows.
C3_EmptyAnswerShowsFallback ==
    [][\A w \in Widgets : \A i \in 1..MaxInflight : \A response \in EmptyResponses :
          (IsLive(w, i) /\ Len(data[w]) = 0 /\ AnswerStep(w) /\ Answered(w, i, response))
          => /\ Len(data'[w]) > 0
             /\ data'[w] \in {ElseFallback(w), CatchFallback(w)}]_vars

\* C4: an answer without a non-empty data array leaves the rows of an
\* earlier successful fetch as they are.
C4_EmptyAnswerKeepsRows ==
    [][\A w \in Widgets : \A i \in 1..MaxInflight : \A response \in EmptyResponses :
          (HoldsLiveRows(w) /\ AnswerStep(w) /\ Answered(w, i, response)) => data'[w] = data[w]]_vars

\* C5: a widget that shows rows shows rows after every step.
C5_RowsNeverLeave ==
    [][\A w \in Widgets : ShowsRows(w) => ShowsRows(w)']_vars

\* C6: once the tree is unmounted no step changes data, loading or error of
\* any widget; unmounting removes no request: those in flight stay in
\* flight, with isMounted false, and are answered later.
C6_NoUpdateAfterUnmount ==
    [][/\ lifecycle = "unmounted" => UNCHANGED << data, loading, error >>
       /\ (lifecycle = "mounted" /\ lifecycle' = "unmounted")
          => \A w \in Widgets :
                /\ Len(inflight'[w]) = Len(inflight[w])
                /\ LiveCount(inflight'[w]) = 0]_vars

\* a table whose only answers arrived after the unmount: nothing is in
\* flight any more and it is still in its initial state
C6_Witness ==
    /\ lifecycle = "unmounted"
    /\ delivered > 0
    /\ \E w \in Tables :
          /\ inflight[w] = << >>
          /\ loading[w] /\ error[w] = Null /\ data[w] = << >>

\* C7: the refresh button makes each of the five widgets send a request in
\* the same step and sets the countdown to 30.
C7_ManualRefreshReachesAll ==
    [][refreshGainersAndLosers
          => /\ \A w \in Widgets : sent'[w] = 1
             /\ countdown' = 30]_vars

\* C8: the step that mounts the tree and every step that changes the
\* refresh trigger make each widget that is given the trigger send exactly
\* one request, to its own endpoint: afterwards it is the widget's only
\* request whose isMounted flag is set.
C8_OneRequestPerTrigger ==
    [][(lifecycle' = "mounted" /\ (lifecycle = "init" \/ lastUpdate' # lastUpdate))
          => \A w \in {"TopBannerScroll", "GainersTable", "LosersTable",
                       "BottomBannerScroll"} :
                /\ sent'[w] = 1
                /\ LiveCount(inflight'[w]) = 1
                /\ inflight'[w][Len(inflight'[w])].endpoint = API_ENDPOINTS[w]
                /\ inflight'[w][Len(inflight'[w])].isMounted]_vars

\* a refresh tick has just made the triggered widgets refetch
C8_Witness ==
    /\ lifecycle = "mounted"
    /\ lastUpdate = 1
    /\ sent["App"] = 1
    /\ \A w \in Triggered : sent[w] = 1 /\ Len(inflight[w]) = 2

\* C9 as stated: every one-second tick lowers the countdown by exactly 1.
C9_TickAlwaysDecrements ==
    [][TickStep => countdown' = countdown - 1]_vars

\* C9 amended: the countdown starts at 30; a one-second tick lowers it by
\* exactly 1 while it is above 1 and sets it to 30 when it is 1; every
\* change of the trigger (refresh tick, refresh button) sets it to 30.
C9_Countdown ==
    /\ countdown = 30
    /\ [][/\ TickStep => countdown' = IF countdown > 1 THEN countdown - 1 ELSE 30
          /\ RefreshStep => countdown' = 30
          /\ lastUpdate' # lastUpdate => countdown' = 30]_vars

\* the 30th tick found the countdown at 1 and set it to 30, before the
\* refresh interval ran
C9_Witness ==
    /\ lifecycle = "mounted"
    /\ countdown = 30
    /\ timer["App"].age = 30
    /\ lastUpdate = 0
    /\ sent = NoneSent

\* C10: App sends a liveness request at mount and in every refresh tick,
\* and while it is mounted the refresh ticks never stop; an answer sets the
\* indicator to its ok; so if from some point on no answer is a failure,
\* the indicator is connected from some point on.
C10_LivenessPolling ==
    /\ [][((lifecycle = "init" /\ lifecycle' = "mounted") \/ RefreshStep)
             => sent'["App"] = 1 /\ connInflight' >= 1]_vars
    /\ [][\A ok \in BOOLEAN : ConnectionAnswered(ok) => isConnected' = ok]_vars
    /\ (<>(lifecycle = "unmounted") \/ []<><<RefreshStep>>_vars)
    /\ (<>[][~ConnectionAnswered(FALSE)]_vars
           => <>[](isConnected \/ lifecycle = "unmounted"))

\* a refresh tick has just sent the next liveness request although the
\* indicator is disconnected
C10_Witness ==
    /\ lifecycle = "mounted"
    /\ ~isConnected
    /\ sent["App"] = 1
    /\ lastUpdate = 1

\* C11: every row a table holds has a symbol without the quote suffix
\* "-USD", and its link is the exchange prefix, the lowercase of the
\* stripped symbol and "-USD".
C11_TableSymbolsStripped ==
    \A w \in Tables : \A i \in 1..Len(data[w]) :
        LET item == data[w][i] IN
        /\ IndexFrom(item.symbol, "-USD", 1) = 0
        /\ coinbaseUrl(item) =
               "https://www.coinbase.com/advanced-trade/spot/"
                   \o toLowerCase(ReplaceFirst(item.symbol, "-USD")) \o "-USD"

\* C12: the badge of a change is STRONG HIGH when |change| >= 5, STRONG
\* when 2 <= |change| < 5 and MODERATE below 2 (in hundredths: 500, 200);
\* change and -change get the same badge, and the four widgets that badge
\* by change give the same badge.
C12_BadgeByAbsoluteChange ==
    (call.fn = "getBadgeText" /\ returned # Null) =>
        LET a == IF call.arg < 0 THEN -call.arg ELSE call.arg IN
        /\ a >= 500 => returned = "STRONG HIGH"
        /\ (200 <= a /\ a < 500) => returned = "STRONG"
        /\ a < 200 => returned = "MODERATE"
        /\ BadgeOf(call.widget, -call.arg) = returned
        /\ \A w \in ChangeBadged : BadgeOf(w, call.arg) = returned

\* the top banner's function was given exactly -2 and returned STRONG
C12_Witness ==
    /\ call = [fn |-> "getBadgeText", widget |-> "TopBannerScroll", arg |-> -200]
    /\ returned = "STRONG"

\* C13: every row a widget holds carries the badge its classification
\* gives to the row's own value: the tier of the change (5 and 2 percent)
\* in the tables and the top banner, the tier of the 24h volume
\* (10,000,000, 1,000,000 and 100,000) in the bottom banner.
C13_RowsCarryTheirBadge ==
    \A w \in Widgets : \A i \in 1..Len(data[w]) :
        LET row == data[w][i] IN
        IF w = "BottomBannerScroll"
        THEN row.badge = (IF row.volume_24h >= 10000000 THEN "HIGH VOL"
                          ELSE IF row.volume_24h >= 1000000 THEN "MODERATE"
                          ELSE IF row.volume_24h >= 100000 THEN "STRONG"
                          ELSE "LOW VOL")
        ELSE LET a == IF row.change < 0 THEN -row.change ELSE row.change IN
             row.badge = (IF a >= 500 THEN "STRONG HIGH"
                          ELSE IF a >= 200 THEN "STRONG"
                          ELSE "MODERATE")

\* C14: a table never holds more than 7 rows and a banner never more than
\* 20; a well-formed answer of n items, applied, leaves the rows made of
\* its first min(n, limit) items in the order of the answer; a banner
\* renders its rows twice, the whole list followed by the whole list.
C14_RowLimits ==
    /\ [](\A w \in Widgets :
            /\ Len(data[w]) <= (IF w \in Tables THEN 7 ELSE 20)
            /\ w \in Banners =>
                  LET shown == Rendered(w) IN
                  /\ Len(shown) = 2 * Len(data[w])
                  /\ \A k \in 1..Len(data[w]) :
                        /\ shown[k] = data[w][k]
                        /\ shown[Len(data[w]) + k] = data[w][k])
    /\ [][\A w \in Widgets : AnswerStep(w) =>
          \A i \in 1..MaxInflight : \A r \in LiveResponses(w) :
            (IsLive(w, i) /\ Answered(w, i, r)) =>
                LET n == Len(r.data.items)
                    limit == IF w \in Tables THEN 7 ELSE 20
                    kept == IF n < limit THEN n ELSE limit
                IN /\ Len(data'[w]) = kept
                   /\ \A k \in 1..kept :
                         data'[w][k] = MapItem(w, r.data.items[k], k - 1)]_vars

\* a table holds 7 rows of an answer of more than 7 items, a banner 20 rows
\* of an answer of more than 20
C14_Witness ==
    /\ Len(LongItems("GainersTable")) > 7
    /\ Len(data["GainersTable"]) = 7
    /\ data["GainersTable"][7].symbol = "T7"
    /\ Len(LongItems("TopBannerScroll")) > 20
    /\ Len(data["TopBannerScroll"]) = 20
    /\ Len(Rendered("TopBannerScroll")) = 40

\* the number of digits after the decimal point of a number printed in
\* fixed notation, -1 when it is printed with an exponent or without a point
FractionDigits(body) ==
    IF IndexFrom(body, "e", 1) # 0 \/ IndexFrom(body, ".", 1) = 0 THEN -1
    ELSE Len(body) - IndexFrom(body, ".", 1)

\* d.dd...e+x or d.dd...e-x
IsScientific(body) == IndexFrom(body, "e", 1) # 0

Throws(s) == IndexFrom(s, Thrown, 1) # 0

\* formatPrice has returned for a finite argument
PriceCalled == call.fn = "formatPrice" /\ call.n >= 1 /\ call.arg.kind = "finite"

\* formatPercentage has returned for a finite argument
PercentageCalled ==
    call.fn = "formatPercentage" /\ call.n >= 1 /\ call.arg.kind = "finite"

\* C15 as stated: the form of formatPrice's result follows from the band of
\* the value alone: 2 decimals from 1 on, then 4, 5, 6, 8, 9, 10 decimals
\* down to 0.000001, scientific notation below (0 and negative values
\* included); a boundary belongs to the higher band; the result starts
\* with "$"; 0.5 gives "$0.5000" and 65000 gives "$65000.00".
C15_PriceBands ==
    PriceCalled =>
        LET x == call.arg
            body == SubSeq(returned, 2, Len(returned))
            d == FractionDigits(body)
            ex == IF x.m > 0 THEN Exponent10(x) ELSE -7
        IN /\ SubSeq(returned, 1, 1) = "$"
           /\ ex >= 0 => d = 2
           /\ ex = -1 => d = 4
           /\ ex = -2 => d = 5
           /\ ex = -3 => d = 6
           /\ ex = -4 => d = 8
           /\ ex = -5 => d = 9
           /\ ex = -6 => d = 10
           /\ ex < -6 => IsScientific(body)
           /\ x = Finite(5, -1) => returned = "$0.5000"
           /\ x = Finite(65, 3) => returned = "$65000.00"

\* C15 amended: as stated for values below 10^21; from 10^21 on the result
\* is "$" and the value in exponent notation, without decimals.
C15_PriceBandsBelow1e21 ==
    PriceCalled =>
        LET x == call.arg
            body == SubSeq(returned, 2, Len(returned))
            d == FractionDigits(body)
            ex == IF x.m > 0 THEN Exponent10(x) ELSE -7
        IN /\ SubSeq(returned, 1, 1) = "$"
           /\ ex >= 21 => (d = -1 /\ IndexFrom(body, "e+", 1) # 0)
           /\ (ex >= 0 /\ ex < 21) => d = 2
           /\ ex = -1 => d = 4
           /\ ex = -2 => d = 5
           /\ ex = -3 => d = 6
           /\ ex = -4 => d = 8
           /\ ex = -5 => d = 9
           /\ ex = -6 => d = 10
           /\ ex < -6 => IsScientific(body)
           /\ x = Finite(5, -1) => returned = "$0.5000"
           /\ x = Finite(65, 3) => returned = "$65000.00"
           /\ x = Finite(1, 21) => returned = "$1e+21"

\* formatPrice was given exactly 0.000001 and printed it with 10 decimals
C15_Witness ==
    /\ call.fn = "formatPrice" /\ call.n = 1
    /\ call.arg = Finite(1, -6)
    /\ returned = "$0.0000010000"

\* C16 as stated: formatPrice(0.00000996) is in scientific notation with 2
\* significant digits.
C16_SmallPriceScientific ==
    (PriceCalled /\ call.arg = Finite(996, -8)) =>
        LET body == SubSeq(returned, 2, Len(returned)) IN
        /\ IsScientific(body)
        /\ IndexFrom(body, "e", 1) = 4

\* C16 amended: formatPrice(0.00000996) is "$0.0000099600", the form of the
\* band from 0.000001 on (10 decimals); the scientific branch starts below
\* 0.000001 and prints 3 significant digits: 0.000000996 gives "$9.96e-7".
C16_SmallPriceTenDecimals ==
    /\ (PriceCalled /\ call.arg = Finite(996, -8)) =>
            /\ returned = "$0.0000099600"
            /\ FractionDigits(SubSeq(returned, 2, Len(returned))) = 10
    /\ (PriceCalled /\ call.arg = Finite(996, -9)) => returned = "$9.96e-7"

\* formatPrice has returned for 0.00000996
C16_Witness ==
    /\ call.fn = "formatPrice" /\ call.n = 1
    /\ call.arg = Finite(996, -8)
    /\ ~IsScientific(returned)

\* C17 as stated: formatPercentage prints 1 decimal from |v| = 10 on, then
\* 2, 3, 4 decimals down to 0.01, 5 decimals below, "0.00%" for 0; a
\* boundary belongs to the higher band; the sign is kept; v and -v get the
\* same number of decimals; the result ends with "%"; 5.23 gives "5.23%",
\* 12.8 gives "12.8%", -0.0032 gives "-0.00320%".
C17_PercentageBands ==
    PercentageCalled =>
        LET v == call.arg
            body == SubSeq(returned, 1, Len(returned) - 1)
            d == FractionDigits(body)
            ex == IF v.m # 0 THEN Exponent10(v) ELSE 0
        IN /\ SubSeq(returned, Len(returned), Len(returned)) = "%"
           /\ v.m = 0 => returned = "0.00%"
           /\ (v.m # 0 /\ ex >= 1) => d = 1
           /\ (v.m # 0 /\ ex = 0) => d = 2
           /\ (v.m # 0 /\ ex = -1) => d = 3
           /\ (v.m # 0 /\ ex = -2) => d = 4
           /\ (v.m # 0 /\ ex < -2) => d = 5
           /\ (v.m < 0) <=> (SubSeq(returned, 1, 1) = "-")
           /\ LET other == formatPercentage([v EXCEPT !.m = -v.m]) IN
                 FractionDigits(SubSeq(other, 1, Len(other) - 1)) = d
           /\ v = Finite(523, -2) => returned = "5.23%"
           /\ v = Finite(128, -1) => returned = "12.8%"
           /\ v = Finite(-32, -4) => returned = "-0.00320%"

\* C17 amended: as stated for |v| below 10^21; from 10^21 on the result is
\* the value in exponent notation, without decimals, and "%".
C17_PercentageBandsBelow1e21 ==
    PercentageCalled =>
        LET v == call.arg
            body == SubSeq(returned, 1, Len(returned) - 1)
            d == FractionDigits(body)
            ex == IF v.m # 0 THEN Exponent10(v) ELSE 0
        IN /\ SubSeq(returned, Len(returned), Len(returned)) = "%"
           /\ v.m = 0 => returned = "0.00%"
           /\ (v.m # 0 /\ ex >= 21) => (d = -1 /\ IndexFrom(body, "e+", 1) # 0)
           /\ (v.m # 0 /\ ex >= 1 /\ ex < 21) => d = 1
           /\ (v.m # 0 /\ ex = 0) => d = 2
           /\ (v.m # 0 /\ ex = -1) => d = 3
           /\ (v.m # 0 /\ ex = -2) => d = 4
           /\ (v.m # 0 /\ ex < -2) => d = 5
           /\ (v.m < 0) <=> (SubSeq(returned, 1, 1) = "-")
           /\ LET other == formatPercentage([v EXCEPT !.m = -v.m]) IN
                 FractionDigits(SubSeq(other, 1, Len(other) - 1)) = d
           /\ v = Finite(523, -2) => returned = "5.23%"
           /\ v = Finite(128, -1) => returned = "12.8%"
           /\ v = Finite(-32, -4) => returned = "-0.00320%"
           /\ v = Finite(-1, 21) => returned = "-1e+21%"

\* formatPercentage has returned for -0.0032
C17_Witness ==
    /\ call.fn = "formatPercentage" /\ call.n = 1
    /\ call.arg = Finite(-32, -4)
    /\ returned = "-0.00320%"

----------------------------------------------------------------------------
(* Overlapping requests of one widget *)

\* the refreshTrigger prop of the triggered widgets gets a new value
TriggerChanges == lastUpdate' # lastUpdate

\* the step settled a request of the widget whose effect run had been
\* cleaned up (isMounted = false) before
StaleAnswerStep(w) ==
    /\ AnswerStep(w)
    /\ \E i \in 1..Len(inflight[w]) :
          /\ ~inflight[w][i].isMounted
          /\ inflight'[w] = RemoveAt(inflight[w], i)

\* the widget's state is exactly the one it had before any answer
Untouched(w) ==
    /\ data[w] = << >>
    /\ w \in Tables => loading[w] /\ error[w] = Null

\* C19 (as stated): no sequencing, the response of every request of a
\* mounted widget is applied: a well-formed response that resolves while
\* the tree is mounted becomes the widget's rows, whichever request it
\* answers.
C19_EveryResponseApplied ==
    [][\A w \in Triggered :
          (AnswerStep(w) /\ lifecycle = "mounted") =>
              \A i \in 1..Len(inflight[w]) : \A response \in LiveResponses(w) :
                  Answered(w, i, response) =>
                      data'[w] = Normalize(w, response.data.items)]_vars

\* C19 (amended): a change of the refresh trigger leaves the earlier
\* requests of a widget in flight but runs the cleanup of the effect run
\* that issued them, so only the request of the new run is live; the
\* response of an earlier request changes neither data nor loading nor
\* error of the widget, in whatever order the responses resolve.
C19_OnlyNewestRunApplied ==
    [][/\ TriggerChanges =>
            \A w \in Triggered :
               /\ Len(inflight'[w]) = Min(Len(inflight[w]) + 1, MaxInflight)
               /\ LiveCount(inflight'[w]) = 1
               /\ inflight'[w][Len(inflight'[w])].isMounted
       /\ \A w \in Widgets :
            StaleAnswerStep(w) =>
               /\ data'[w] = data[w]
               /\ w \in Tables => loading'[w] = loading[w] /\ error'[w] = error[w]]_vars

\* both requests of the top banner have resolved, the earlier one issued
\* before the trigger changed: the banner holds rows of a successful fetch
\* although nothing else was answered
C19_Witness ==
    /\ lifecycle = "mounted"
    /\ delivered = 2
    /\ inflight["TopBannerScroll"] = << >>
    /\ HoldsLiveRows("TopBannerScroll")
    /\ \A w \in Triggered \ {"TopBannerScroll"} :
          Len(inflight[w]) = 2 /\ LiveCount(inflight[w]) = 1 /\ Untouched(w)

----------------------------------------------------------------------------
(* The fallback rows of a widget *)

\* the step settled the first answer a widget handles, and the answer was
\* not a usable one: the fetch failed or resolved without a non-empty array
FirstUnusableAnswerStep(w) ==
    /\ AnswerStep(w)
    /\ ~StaleAnswerStep(w)
    /\ Untouched(w)
    /\ captured[w] = << >>
    /\ ~HoldsLiveRows(w)'

\* C20: each widget has one fixed fallback row set: the rows it holds after
\* a failed request and the rows it holds after an empty or malformed
\* response are the same list, so whichever of the two paths handled the
\* widget's first answer, it holds the rows of the catch branch and they
\* are the rows of the else branch.
C20_OneFallbackPerWidget ==
    [][\A w \in Widgets :
          FirstUnusableAnswerStep(w) =>
              /\ data'[w] = CatchFallback(w)
              /\ data'[w] = ElseFallback(w)]_vars

----------------------------------------------------------------------------
(* Interval timers *)

\* the intervals a component has set and not cleared: a table's polling
\* interval; App's refresh interval and its one-second countdown interval
ActiveIntervals(c) ==
    IF c = "App" THEN timer[c].n + (IF countdownOn THEN 1 ELSE 0)
    ELSE IF c \in Tables THEN timer[c].n
    ELSE 0

\* C21: every interval a component sets is cleared when it unmounts, and a
\* table's also when its refresh trigger changes: while the tree is mounted
\* each table has exactly one active polling interval and App exactly one
\* refresh interval and one countdown interval; before the first commit and
\* after the unmount no component has any.
C21_IntervalsReleased ==
    /\ lifecycle = "mounted" =>
          /\ \A w \in Tables : timer[w].on /\ ActiveIntervals(w) = 1
          /\ timer["App"].on /\ timer["App"].n = 1 /\ countdownOn
          /\ ActiveIntervals("App") = 2
    /\ lifecycle # "mounted" =>
          \A c \in Components : ActiveIntervals(c) = 0 /\ (c \in DOMAIN timer => ~timer[c].on)

\* the tree was unmounted after a table's effect had re-run for a new
\* trigger and set a second interval
C21_Witness ==
    /\ lifecycle = "unmounted"
    /\ \E w \in Tables : Len(inflight[w]) = 2 /\ LiveCount(inflight[w]) = 0
    /\ \A c \in Components : ActiveIntervals(c) = 0

----------------------------------------------------------------------------
(* GainersTable1Min: Show More / Show Less *)

\* C22: GainersTable1Min renders the first min(n, 3) of its n rows while
\* collapsed and all n while expanded; it starts collapsed; the toggle can
\* be clicked exactly when n > 3; a click flips the expanded flag and
\* leaves the rows alone; an answer of the data endpoint leaves the flag
\* unchanged.
C22_ExpandCollapse ==
    /\ [](LET n == Len(data["GainersTable1Min"])
              shown == Rendered("GainersTable1Min")
          IN /\ lifecycle = "init" => ~isExpanded
             /\ Len(shown) = (IF isExpanded THEN n ELSE IF n < 3 THEN n ELSE 3)
             /\ \A k \in 1..Len(shown) : shown[k] = data["GainersTable1Min"][k]
             /\ (ENABLED ToggleExpanded) <=> (lifecycle = "mounted" /\ n > 3))
    /\ [][/\ ToggleExpanded => (isExpanded' = ~isExpanded /\ data' = data)
          /\ AnswerStep("GainersTable1Min") => isExpanded' = isExpanded]_vars

\* the table is expanded and holds fewer than four rows: it was expanded
\* while it held more, and a later answer replaced the rows
C22_Witness ==
    /\ isExpanded
    /\ Len(data["GainersTable1Min"]) = 3
    /\ Len(Rendered("GainersTable1Min")) = 3
    /\ delivered = 2

----------------------------------------------------------------------------
(* Widgets are independent of each other and of App *)

\* C23: the resolution of one widget's request (success, empty response or
\* failure) leaves the data, loading and error state of every other widget
\* and App's trigger, countdown and connection indicator unchanged.
C23_AnswerChangesOwnStateOnly ==
    [][\A w \in Widgets :
          AnswerStep(w) =>
              /\ \A v \in Widgets \ {w} :
                    /\ data'[v] = data[v]
                    /\ v \in Tables => loading'[v] = loading[v] /\ error'[v] = error[v]
              /\ lastUpdate' = lastUpdate
              /\ countdown' = countdown
              /\ isConnected' = isConnected]_vars

\* one table has handled the failure of its request while time has passed
\* and another table is still waiting for its first answer
C23_Witness ==
    /\ error["GainersTable"] # Null
    /\ data["GainersTable"] = CatchFallback("GainersTable")
    /\ Untouched("LosersTable")
    /\ Len(inflight["LosersTable"]) > 0
    /\ countdown < PollSeconds
    /\ isConnected

----------------------------------------------------------------------------
(* Liveness of the display *)

\* C24: when every request eventually resolves and the backend returns
\* non-empty data, every widget of a tree that stays mounted eventually
\* shows rows (a table leaves its loading view), also when the refresh
\* trigger keeps changing before the previous request has resolved.  (With
\* non-empty answers only, rows once shown are never replaced by none, so
\* "each widget eventually" and "eventually all widgets" are the same.)
C24_EventuallyRows ==
    <>(lifecycle = "unmounted" \/ \A w \in Widgets : ShowsRows(w))

----------------------------------------------------------------------------
(* Requests of one effect run *)

\* the table's interval has fired since it was set: it has begun a new
\* period although App's refresh interval, set in the same commit, has not
Polled(w) == timer[w].on /\ timer[w].age < timer["App"].age

\* the interval's request has resolved while the initial request of the
\* same effect run is still unanswered, and the table holds rows of a
\* successful fetch: the rows of the later-issued request
HoldsLaterRows(w) ==
    /\ lifecycle = "mounted"
    /\ Polled(w)
    /\ Len(inflight[w]) = 1
    /\ inflight[w][1].isMounted /\ ~inflight[w][1].byInterval
    /\ HoldsLiveRows(w)

\* C25: among the requests of one effect run of a table (the initial fetch
\* and the fetches of its 30-second interval) an earlier-issued request
\* that resolves after a later-issued one never overwrites the later one's
\* rows: once the interval's request has been applied, the answer to the
\* initial request leaves the rows as they are.
C25_EarlierNeverOverwritesLater ==
    [][\A w \in Tables :
          (HoldsLaterRows(w) /\ AnswerStep(w)) => data'[w] = data[w]]_vars

----------------------------------------------------------------------------
(* Requests of a table inside one refresh cycle *)

\* C26: inside one 30-second refresh cycle of App, and between two
\* consecutive changes of the refresh trigger, a table that is given the
\* trigger issues exactly one request, the one its effect sends at mount or
\* when the trigger changes; its own interval never adds a second one: a
\* step of the mounted tree that leaves the trigger as it is sends no
\* request of GainersTable or LosersTable.
C26_OneRequestPerCycle ==
    [][\A w \in {"GainersTable", "LosersTable"} :
          (lifecycle = "mounted" /\ lastUpdate' = lastUpdate) => sent'[w] = 0]_vars

----------------------------------------------------------------------------
(* The countdown and the refresh interval *)

\* the one-second ticks still to come before App's refresh interval fires
SecondsLeft == PollSeconds - timer["App"].age

\* no callback of the instant in which the refresh interval fires is half
\* done: the refresh interval is inside its period
InsidePeriod == timer["App"].on /\ timer["App"].age \in 0..(PollSeconds - 1)

\* C27: at every moment the countdown App shows is the number of seconds
\* left until its next automatic refresh tick, also after a manual refresh.
C27_CountdownIsTimeLeft ==
    (lifecycle = "mounted" /\ InsidePeriod) => countdown = SecondsLeft

----------------------------------------------------------------------------
(* The range of the countdowns *)

\* a step in which CountdownTimer's one-second interval fired
TimerTickStep == timerMounted = "mounted" /\ secondsLeft' # secondsLeft

\* C28: App's countdown is an integer in 1..30 in every reachable state; it
\* never shows 0, a one-second tick at 1 sets it to 30.  The standalone
\* CountdownTimer stays in 0..29 and its tick at 0 sets it to 29.
C28_CountdownRange ==
    /\ [](countdown \in 1..30 /\ secondsLeft \in 0..29)
    /\ [][/\ (TickStep /\ countdown = 1) => countdown' = 30
          /\ (TimerTickStep /\ secondsLeft = 0) => secondsLeft' = 29
          /\ (TimerTickStep /\ secondsLeft > 0) => secondsLeft' = secondsLeft - 1]_vars

\* App's 30th tick has wrapped its countdown from 1 to 30 and the
\* standalone timer has counted down to 0
C28_Witness ==
    /\ lifecycle = "mounted"
    /\ countdown = 30
    /\ timer["App"].age = 30
    /\ timerMounted = "mounted"
    /\ secondsLeft = 0

----------------------------------------------------------------------------
(* The loading and error flags of a table *)

\* C29: in a table loading starts true and error starts null; the first
\* applied response sets loading to false and it never becomes true again;
\* once a failed request has set error it never becomes null again, also
\* not when a later fetch succeeds.
C29_FlagsMonotone ==
    /\ [](lifecycle = "init" => \A w \in Tables : loading[w] /\ error[w] = Null)
    /\ [][\A w \in Tables :
             /\ ~loading[w] => ~loading'[w]
             /\ error[w] # Null => error'[w] # Null
             /\ (AnswerStep(w) /\ ~StaleAnswerStep(w)) => ~loading'[w]]_vars

\* a table shows the rows of a successful fetch and still has the error of
\* an earlier failed request
C29_Witness ==
    /\ lifecycle = "mounted"
    /\ \E w \in Tables :
          /\ error[w] # Null
          /\ ~loading[w]
          /\ HoldsLiveRows(w)

----------------------------------------------------------------------------
(* The liveness request after the unmount *)

\* C30: after App has unmounted, a liveness request that was still in flight
\* does not update the connection indicator when it resolves: no step of
\* the unmounted tree changes isConnected.
C30_NoIndicatorUpdateAfterUnmount ==
    [][lifecycle = "unmounted" => isConnected' = isConnected]_vars

====
